---------------------------- MODULE Spec2Model ----------------------------
(***************************************************************************)
(* Gesture-driven weave renderer (WeaveCanvas).  Two variants of the       *)
(* component exist in the repository: the LINES variant                    *)
(* (src/components/WeaveCanvas.tsx) and the SCATTER variant                *)
(* (src/unnamed/part_000).  They share the detection loop, the reveal-mask *)
(* painter and the frame orchestrator and differ in gesture priority, in   *)
(* the vertex shader and in the draw call.                                 *)
(*                                                                         *)
(* Numbers.  JavaScript doubles and GLSL floats are modelled in fixed      *)
(* point: normalized coordinates (landmarks, hand position, uv) in units   *)
(* of 1/PosScale, velocities in units of 1/VelScale, mask pixels as the    *)
(* 8-bit channel values the 2D canvas stores.  Products are divided with   *)
(* truncation toward zero.                                                 *)
(*                                                                         *)
(* The reveal mask is a raster of up to a few hundred thousand pixels; the *)
(* model follows the pixels of TrackedPixels that lie inside the mask.     *)
(* Canvas operations act on every pixel independently, so the tracked      *)
(* pixels behave exactly as they do in the full raster.                    *)
(***************************************************************************)
EXTENDS Integers, Sequences, FiniteSets, TLC

(***************************************************************************)
(* Bounds of the exploration.                                              *)
(***************************************************************************)
MaxCycles == 2          \* detection cycles explored by Spec
MaxFrames == 2          \* render callbacks explored by Spec
MaxConfigChanges == 1   \* configuration changes explored by Spec
MaxPaintCycles == 2     \* detection cycles explored by SpecPaint
MaxPaintFrames == 3     \* render callbacks explored by SpecPaint
MaxHoldFrames == 30     \* render callbacks explored by SpecHold
MaxSeenCycles == 2      \* cycles of SpecDecay in which a hand can be seen
MaxDecayCycles == 47    \* detection cycles explored by SpecDecay
MaxLifeCycles == 2      \* detection cycles explored by SpecLife
MaxLifeFrames == 2      \* render callbacks explored by SpecLife
MaxTrackCycles == 3     \* detection cycles explored by SpecTrack
MaxTrackFrames == 1     \* render callbacks explored by SpecTrack
MaxMeshFrames == 2      \* render callbacks explored by SpecMesh
MaxMeshChanges == 2     \* configuration changes explored by SpecMesh
MaxImageCycles == 2     \* detection cycles explored by SpecImage
MaxImageFrames == 2     \* render callbacks explored by SpecImage
MaxImageChanges == 2    \* configuration changes explored by SpecImage
MaxShadeCycles == 4     \* detection cycles explored by SpecShade
MaxShadeFrames == 2     \* render callbacks explored by SpecShade
MaxClassifyCycles == 2  \* detection cycles explored by SpecClassify
MaxEdgeFrames == 1      \* render callbacks explored by SpecEdges
MaxEdgeChanges == 2     \* configuration changes explored by SpecEdges
MaxStallCycles == 2     \* detection cycles explored by SpecStall
MaxStallFrames == 2     \* render callbacks explored by SpecStall
MaxMaskCycles == 2      \* detection cycles explored by SpecMask
MaxMaskFrames == 2      \* render callbacks explored by SpecMask
MaxReloadCycles == 3    \* detection cycles explored by SpecReload
MaxReloadFrames == 2    \* render callbacks explored by SpecReload

(***************************************************************************)
(* Fixed-point scales and program constants.                               *)
(***************************************************************************)
PosScale == 10 * 100            \* 1.0 in normalized coordinates
VelScale == 1000 * 1000         \* 1.0 in velocity
VelPerPos == VelScale \div PosScale

NONE == 0
FIST == 1
OPEN == 2
PINCH == 4

BrushRadius == 80               \* const radius = 80
BrushAlpha == 51                \* 'rgba(255, 255, 255, 0.2)' in 8 bits
ChannelMax == 255               \* 8-bit channel: 1.0
DefaultCanvasW == 300           \* width of a freshly created <canvas>
DefaultCanvasH == 150           \* height of a freshly created <canvas>
InitFill == 100                 \* ctx.fillRect(0,0,100,100)

Variants == {"LINES", "SCATTER"}

(***************************************************************************)
(* Arithmetic helpers.                                                     *)
(***************************************************************************)
Abs(a) == IF a >= 0 THEN a ELSE -a

Max(a, b) == IF a >= b THEN a ELSE b

Min(a, b) == IF a <= b THEN a ELSE b

\* a / b for b > 0, rounded toward zero
TruncDiv(a, b) == IF a >= 0 THEN a \div b ELSE -((-a) \div b)

\* floor(sqrt(n)) for 0 <= n, by bisection of lo..hi (lo*lo <= n < hi*hi)
RECURSIVE SqrtBetween(_, _, _)
SqrtBetween(n, lo, hi) ==
    IF hi - lo <= 1 THEN lo
    ELSE LET mid == (lo + hi) \div 2
         IN  IF mid * mid <= n THEN SqrtBetween(n, mid, hi) ELSE SqrtBetween(n, lo, mid)

ISqrt(n) == SqrtBetween(n, 0, 40000)

\* squared distance of two points <<x, y>>
Dist2(a, b) == (a[1] - b[1]) * (a[1] - b[1]) + (a[2] - b[2]) * (a[2] - b[2])

(***************************************************************************)
(* Pose estimator results.  A hand is the seven landmarks the classifier   *)
(* reads, as <<x, y>> in 1/PosScale; NoHand is an empty landmark list.     *)
(***************************************************************************)
Hand(c, thumb, index, middle, ring) ==
    [lm0  |-> <<c[1], c[2] + 300>>,
     lm4  |-> <<c[1] + thumb[1], c[2] + thumb[2]>>,
     lm8  |-> <<c[1] + index[1], c[2] + index[2]>>,
     lm9  |-> c,
     lm12 |-> <<c[1] + middle[1], c[2] + middle[2]>>,
     lm13 |-> <<c[1] + 40, c[2] + 10>>,
     lm16 |-> <<c[1] + ring[1], c[2] + ring[2]>>]

\* fingers extended, thumb away from the index finger
OpenHand(c) == Hand(c, <<-150, 0>>, <<-40, -280>>, <<0, -300>>, <<40, -280>>)

\* middle and ring finger curled toward the wrist
FistHand(c) == Hand(c, <<-100, 50>>, <<-30, 80>>, <<0, 100>>, <<40, 100>>)

\* fingers extended, thumb tip on the index tip
PinchHand(c) == Hand(c, <<-50, -100>>, <<-30, -100>>, <<0, -300>>, <<40, -280>>)

\* curled fingers and thumb tip on the index tip
PinchFistHand(c) == Hand(c, <<-50, 60>>, <<-30, 60>>, <<0, 100>>, <<40, 100>>)

\* middle finger curled, ring finger extended
HalfFistHand(c) == Hand(c, <<-100, 50>>, <<-30, 80>>, <<0, 100>>, <<40, -280>>)

\* middle finger curled to 250/300 of its base distance: between 0.8 and 0.85
LooseFistHand(c) == Hand(c, <<-100, 50>>, <<-30, 80>>, <<0, 50>>, <<40, 100>>)

\* fingers extended, thumb tip exactly 0.05 from the index tip
EdgePinchHand(c) == Hand(c, <<-80, -100>>, <<-30, -100>>, <<0, -300>>, <<40, -280>>)

\* every shape, held in the middle of the frame
Hands == {OpenHand(<<500, 500>>), FistHand(<<500, 500>>), PinchHand(<<500, 500>>),
          PinchFistHand(<<500, 500>>), HalfFistHand(<<500, 500>>)}

\* a hand that paints in two places
PaintHands == {FistHand(<<500, 500>>), FistHand(<<750, 500>>), OpenHand(<<750, 500>>)}

NoHand == [none |-> TRUE]

\* handLandmarker.detectForVideo throws instead of returning a result
Fault == [fault |-> TRUE]

\* a hand held closed and still in the middle of the frame
HoldHands == {FistHand(<<500, 500>>)}

\* a hand whose landmark 9 visits the corners of the frame
TrackHands == {OpenHand(<<0, 0>>), PinchHand(<<1000, 1000>>), FistHand(<<1000, 0>>)}

\* a hand that paints in the middle of the frame, then opens or pinches in a corner
ShadeHands == {FistHand(<<500, 500>>), OpenHand(<<1000, 1000>>), PinchHand(<<1000, 1000>>)}

\* every shape and the two threshold cases, each with landmark 9 in its own place
ClassifyHands == {OpenHand(<<500, 500>>), FistHand(<<400, 500>>), PinchHand(<<600, 500>>),
                  PinchFistHand(<<500, 400>>), HalfFistHand(<<500, 600>>),
                  LooseFistHand(<<400, 400>>), EdgePinchHand(<<600, 600>>)}

\* a closed hand, and an estimator that can fail
LifeHands == {FistHand(<<500, 500>>), Fault}

\* a hand that moves before it is lost
DecayHands == {OpenHand(<<750, 500>>), OpenHand(<<500, 250>>), FistHand(<<0, 1000 - 300>>)}

(***************************************************************************)
(* Gesture classification (the body of predict's hand branch).             *)
(***************************************************************************)
PinchDistBelow(lm) == Dist2(lm.lm4, lm.lm8) < 50 * 50

\* LINES: middle AND ring tip closer to the wrist than 0.85 x base
IsFistLines(lm) ==
    /\ Dist2(lm.lm12, lm.lm0) * 400 < Dist2(lm.lm9, lm.lm0) * 289
    /\ Dist2(lm.lm16, lm.lm0) * 400 < Dist2(lm.lm13, lm.lm0) * 289

\* SCATTER: middle tip closer to the wrist than 0.8 x base
IsFistScatter(lm) == Dist2(lm.lm12, lm.lm0) * 25 < Dist2(lm.lm9, lm.lm0) * 16

\* variant: LINES tests the pinch before the fist
ClassifyLinesPinchFirst(lm) ==
    IF PinchDistBelow(lm) THEN PINCH
    ELSE IF IsFistLines(lm) THEN FIST
    ELSE OPEN

ClassifyLines(lm) ==
    IF IsFistLines(lm) THEN FIST
    ELSE IF PinchDistBelow(lm) THEN PINCH
    ELSE OPEN

ClassifyScatter(lm) ==
    IF PinchDistBelow(lm) THEN PINCH
    ELSE IF IsFistScatter(lm) THEN FIST
    ELSE OPEN

\* variant: the code 3 ("double") the shaders' comments mention, for a pinching fist
ClassifyWithDouble(v, lm) ==
    IF PinchDistBelow(lm) /\ IsFistScatter(lm) THEN 3
    ELSE IF v = "LINES" THEN ClassifyLines(lm) ELSE ClassifyScatter(lm)

Classify(v, lm) == IF v = "LINES" THEN ClassifyLines(lm) ELSE ClassifyScatter(lm)

\* variant: the no-hand branch leaves a fist behind
NoHandGestureFist == FIST

\* gesture.current = 0 when no hand is returned
NoHandGesture == NONE

(***************************************************************************)
(* Motion smoothing.                                                       *)
(***************************************************************************)
\* targetX = 1.0 - lm[9].x ; targetY = lm[9].y
Target(lm) == <<PosScale - lm.lm9[1], lm.lm9[2]>>

\* vel = vel * 0.8 + delta * 0.2   (delta in 1/PosScale)
SmoothVel(vel, delta) == TruncDiv(vel * 8 + delta * VelPerPos * 2, 10)

\* variant: the gain 1.3 written for 0.3
SmoothPosOvershoot(pos, target) == pos + TruncDiv((target - pos) * 13, 10)

\* pos += (target - pos) * 0.3
SmoothPos(pos, target) == pos + TruncDiv((target - pos) * 3, 10)

\* variant: the velocity snaps to zero when the hand is lost
DecayVelSnap(vel) == 0

\* vel *= 0.9
DecayVel(vel) == TruncDiv(vel * 9, 10)

(***************************************************************************)
(* Reveal mask: an offscreen 2D canvas.  A pixel is its red channel r (as  *)
(* texImage2D reads it, not premultiplied) and its alpha a, both 8 bit.    *)
(***************************************************************************)
\* display sizes (clientWidth x clientHeight) the window takes
Sizes == {<<300, 150>>, <<160, 120>>}

\* uv (1/PosScale) of the mesh vertices the model follows
SampleUVs == {<<500, 500>>, <<750, 500>>, <<750, 750>>, <<0, 0>>, <<1000, 1000>>}

\* texel a vertex samples: texCoord = (u, 1 - v), CLAMP_TO_EDGE, nearest texel
TexelOf(uv, w, h) ==
    <<Min((uv[1] * w) \div PosScale, w - 1), Min(((PosScale - uv[2]) * h) \div PosScale, h - 1)>>

TrackedPixels == {TexelOf(uv, s[1], s[2]) : uv \in SampleUVs, s \in Sizes}

Visible(w, h) == {p \in TrackedPixels : p[1] < w /\ p[2] < h}

BlackPixel == [r |-> 0, a |-> ChannelMax]

ClearPixel == [r |-> 0, a |-> 0]

\* document.createElement('canvas') then fillStyle 'black', fillRect(0,0,100,100)
InitialMask ==
    [p \in Visible(DefaultCanvasW, DefaultCanvasH) |->
        IF p[1] < InitFill /\ p[2] < InitFill THEN BlackPixel ELSE ClearPixel]

\* mCanvas.width = w; mCanvas.height = h; fillStyle 'black'; fillRect(0,0,w,h)
ResetMask(w, h) == [p \in Visible(w, h) |-> BlackPixel]

\* brush centre in pixels: x = handPos.x * W, y = (1 - handPos.y) * H
BrushCentre(pos, w, h) ==
    <<(pos[1] * w) \div PosScale, ((PosScale - pos[2]) * h) \div PosScale>>

\* radial gradient from alpha 0.2 at the centre to 0 at the radius, clipped by
\* the arc; the result is BrushRadius times the 8-bit alpha at pixel p
GradientAlpha(p, c) ==
    LET d == ISqrt(Dist2(p, c))
    IN  IF d >= BrushRadius THEN 0 ELSE BrushAlpha * (BrushRadius - d)

\* variant: globalCompositeOperation = 'copy', the source replaces the pixel
LightenCopy(px, al) == [r |-> al \div BrushRadius, a |-> ChannelMax]

\* variant: the brighter of pixel and source intensity, no accumulation
LightenMax(px, al) == IF al = 0 THEN px ELSE [r |-> Max(px.r, al \div BrushRadius), a |-> ChannelMax]

\* variant: globalCompositeOperation = 'lighter', intensities are summed
LightenAdd(px, al) == IF al = 0 THEN px ELSE [r |-> Min(px.r + al \div BrushRadius, ChannelMax), a |-> ChannelMax]

\* globalCompositeOperation = 'lighten' with a white source of alpha
\* al / (ChannelMax * BrushRadius) over the pixel px: blend B = max(Cb, Cs),
\* then source-over compositing
Lighten(px, al) ==
    LET full == ChannelMax * BrushRadius
        num  == al * ChannelMax * ChannelMax + (full - al) * px.a * Max(px.r, 0)
        den  == al * ChannelMax + (full - al) * px.a
        a2   == den \div full
    IN  IF al = 0 \/ a2 = 0 THEN px
        ELSE [r |-> Min(num \div den, ChannelMax), a |-> a2]

\* mCtx.fill() of the arc with the gradient
Stamp(m, c) == [p \in DOMAIN m |-> Lighten(m[p], GradientAlpha(p, c))]

(***************************************************************************)
(* Vertex shader: position and tint of one vertex.  Coordinates in         *)
(* 1/PosScale, angles in 1/PosScale radians, u_time in milliseconds.      *)
(***************************************************************************)
Pi == 3142

\* sin of an angle in [0, Pi] (Bhaskara's rational approximation), x 1/PosScale
SinHalf(x) == (16 * x * (Pi - x) * 10) \div ((5 * Pi * Pi - 4 * x * (Pi - x)) \div 100)

Sin(x) ==
    LET t == x % (2 * Pi)
    IN  IF t <= Pi THEN SinHalf(t) ELSE -SinHalf(t - Pi)

\* smoothstep(radius, 0.0, dist): t = clamp((dist - radius) / (0 - radius)), t*t*(3 - 2t)
Smoothstep(radius, dist) ==
    LET t == Max(0, Min(PosScale, ((radius - dist) * PosScale) \div radius))
    IN  (t * t * (3 * PosScale - 2 * t)) \div (PosScale * PosScale)

\* mix(a, b, t)
Mix(a, b, t) == a + TruncDiv((b - a) * t, PosScale)

\* pos = ((u - 0.5) * 2 * aspect, (v - 0.5) * 2, 0)
BasePos(uv, w, h) == <<TruncDiv((uv[1] - 500) * 2 * w, h), (uv[2] - 500) * 2, 0>>

\* handPos2D = (u_hand.x * aspect, 1 - u_hand.y)
HandPos2D(hand, w, h) == <<TruncDiv(hand[1] * w, h), PosScale - hand[2]>>

Untouched(uv, w, h) == [pos |-> BasePos(uv, w, h), tint |-> <<0, 0, 0>>, branch |-> "none"]

\* LINES, A: big wave (open hand) on revealed material
WaveLines(uv, w, h, u, dist) ==
    LET b   == BasePos(uv, w, h)
        hp  == HandPos2D(u.hand, w, h)
        inf == Smoothstep(650, dist)
        px  == Mix(b[1], hp[1] + TruncDiv((b[1] - hp[1]) * 7, 10), (inf * 3) \div 10)
        py  == Mix(b[2], hp[2] + TruncDiv((b[2] - hp[2]) * 7, 10), (inf * 3) \div 10)
        vx  == TruncDiv(TruncDiv(u.handVel[1] * inf, PosScale) * 12, VelPerPos)
        vy  == TruncDiv(TruncDiv(u.handVel[2] * inf, PosScale) * 12, VelPerPos)
        z   == TruncDiv(Sin(dist * 12 - u.time * 6 + 200 * Pi) * inf * 12, 10 * PosScale)
    IN  [pos |-> <<px + vx, py + vy, z>>,
         tint |-> <<0, (400 * inf) \div PosScale, (600 * inf) \div PosScale>>,
         branch |-> "wave"]

\* variant: the press also shifts the vertex sideways
PressLinesPull(uv, w, h, dist) ==
    LET b == BasePos(uv, w, h)
    IN  [pos |-> <<b[1] + (250 - dist) \div 10, b[2], b[3] - ((250 - dist) * 6) \div 10>>,
         tint |-> <<0, 0, 0>>, branch |-> "press"]

\* LINES, B: press (fist), radius 0.25, depth 0.6
PressLines(uv, w, h, dist) ==
    LET b == BasePos(uv, w, h)
    IN  [pos |-> <<b[1], b[2], b[3] - ((250 - dist) * 6) \div 10>>, tint |-> <<0, 0, 0>>, branch |-> "press"]

\* LINES, C: tension (pinch), radius 0.3
TensionLines(uv, w, h, u, dist) ==
    LET b   == BasePos(uv, w, h)
        hp  == HandPos2D(u.hand, w, h)
        str == ((300 - dist) * PosScale) \div 300
        z   == TruncDiv(Sin(dist * 60 - u.time * 12 + 200 * Pi) * str, 10 * PosScale)
    IN  [pos |-> <<Mix(b[1], hp[1], (str * 5) \div 100), Mix(b[2], hp[2], (str * 5) \div 100), z>>,
         tint |-> <<(300 * str) \div PosScale, 0, (300 * str) \div PosScale>>,
         branch |-> "tension"]

\* SCATTER, A: sticky weave (pinch) on revealed material, radius 0.5
WeaveScatter(uv, w, h, u, dist) ==
    LET b   == BasePos(uv, w, h)
        hp  == HandPos2D(u.hand, w, h)
        inf == Smoothstep(500, dist)
        px  == Mix(b[1], hp[1] + TruncDiv((b[1] - hp[1]) * 6, 10), (inf * 4) \div 10)
        py  == Mix(b[2], hp[2] + TruncDiv((b[2] - hp[2]) * 6, 10), (inf * 4) \div 10)
        vx  == TruncDiv(TruncDiv(u.handVel[1] * inf, PosScale) * 3, VelPerPos)
        vy  == TruncDiv(TruncDiv(u.handVel[2] * inf, PosScale) * 3, VelPerPos)
        wv  == TruncDiv(Sin(uv[1] * 150) * Sin(uv[2] * 150 + Pi \div 2), PosScale)
    IN  [pos |-> <<px + vx, py + vy, wv * 2>>,
         tint |-> <<(200 * inf) \div PosScale, (100 * inf) \div PosScale, (300 * inf) \div PosScale>>,
         branch |-> "weave"]

\* SCATTER, B: press (fist), radius 0.2, depth 0.5
PressScatter(uv, w, h, dist) ==
    LET b == BasePos(uv, w, h)
    IN  [pos |-> <<b[1], b[2], b[3] - ((200 - dist) * 5) \div 10>>, tint |-> <<0, 0, 0>>, branch |-> "press"]

\* SCATTER, C: ripple (open hand), radius 0.4
RippleScatter(uv, w, h, u, dist) ==
    LET b   == BasePos(uv, w, h)
        str == ((400 - dist) * PosScale) \div 400
        z   == TruncDiv(Sin(dist * 40 - u.time * 8 + 200 * Pi) * str * 15, 100 * PosScale)
    IN  [pos |-> <<b[1], b[2], z>>, tint |-> <<0, 0, 0>>, branch |-> "ripple"]

\* variant: every vertex counts as revealed
RevealedAlways(maskVal) == TRUE

\* maskVal > 0.1, for the 8-bit mask sample
Revealed(maskVal) == maskVal * 10 > ChannelMax

\* main() of the LINES vertex shader; maskVal is the 8-bit mask sample
VertexShaderLines(uv, maskVal, u) ==
    LET w    == u.resolution[1]
        h    == u.resolution[2]
        b    == BasePos(uv, w, h)
        dist == ISqrt(Dist2(<<b[1], b[2]>>, HandPos2D(u.hand, w, h)))
    IN  IF u.gesture = OPEN /\ Revealed(maskVal)
        THEN IF dist < 650 THEN WaveLines(uv, w, h, u, dist) ELSE Untouched(uv, w, h)
        ELSE IF u.gesture = FIST
        THEN IF dist < 250 THEN PressLines(uv, w, h, dist) ELSE Untouched(uv, w, h)
        ELSE IF u.gesture > 3
        THEN IF dist < 300 THEN TensionLines(uv, w, h, u, dist) ELSE Untouched(uv, w, h)
        ELSE Untouched(uv, w, h)

\* main() of the SCATTER vertex shader
VertexShaderScatter(uv, maskVal, u) ==
    LET w    == u.resolution[1]
        h    == u.resolution[2]
        b    == BasePos(uv, w, h)
        dist == ISqrt(Dist2(<<b[1], b[2]>>, HandPos2D(u.hand, w, h)))
    IN  IF u.gesture > 3 /\ Revealed(maskVal)
        THEN IF dist < 500 THEN WeaveScatter(uv, w, h, u, dist) ELSE Untouched(uv, w, h)
        ELSE IF u.gesture = FIST
        THEN IF dist < 200 THEN PressScatter(uv, w, h, dist) ELSE Untouched(uv, w, h)
        ELSE IF u.gesture = OPEN
        THEN IF dist < 400 THEN RippleScatter(uv, w, h, u, dist) ELSE Untouched(uv, w, h)
        ELSE Untouched(uv, w, h)

VertexShader(v, uv, maskVal, u) ==
    IF v = "LINES" THEN VertexShaderLines(uv, maskVal, u) ELSE VertexShaderScatter(uv, maskVal, u)

(***************************************************************************)
(* Mesh builder: the grid generation of initWebGL.  The canvas has width   *)
(* w >= 1 and height h >= 1 (with a height of 0 the aspect is Infinity,    *)
(* rows is 0, cols is Infinity and the outer loop does not end).           *)
(***************************************************************************)
\* Math.ceil(Math.sqrt(count / aspect)), aspect = w / h: the least r with
\* r * r >= count * h / w
MeshRows(count, w, h) ==
    LET n == (count * h + w - 1) \div w
        r == ISqrt(n)
    IN  IF r * r = n THEN r ELSE r + 1

\* Math.ceil(count / rows)
MeshCols(count, rows) == (count + rows - 1) \div rows

\* the result of 0 / 0
NotANumber == 0 - 1

\* i / (n - 1) for 0 <= i < n, in 1/PosScale
GridCoord(i, n) == IF n = 1 THEN NotANumber ELSE (i * PosScale) \div (n - 1)

\* lineIndices.length: two indices per edge to the right and per edge downward
LineCount(rows, cols) == 2 * ((cols - 1) * rows + (rows - 1) * cols)

\* the buffers after the loops: vertex ptr = i * rows + j for column i, row j
MeshBuilder(v, count, w, h, build) ==
    LET rows == MeshRows(count, w, h)
        cols == MeshCols(count, rows)
    IN  [rows |-> rows, cols |-> cols, numVertices |-> rows * cols,
         numLines |-> IF v = "LINES" THEN LineCount(rows, cols) ELSE 0,
         build |-> build]

\* uvData[2 ptr], uvData[2 ptr + 1]
MeshUV(m, ptr) == <<GridCoord(ptr \div m.rows, m.cols), GridCoord(ptr % m.rows, m.rows)>>

\* indexData[ptr] of the vertex in column i, row j
MeshId(m, i, j) == i * m.rows + j

\* variant: the connection to the lower neighbour is pushed for every vertex
PushedAtWrap(m, i, j) ==
    LET ptr == MeshId(m, i, j)
    IN  (IF i < m.cols - 1 THEN <<ptr, ptr + m.rows>> ELSE <<>>) \o <<ptr, ptr + 1>>

\* what iteration (i, j) of the loops appends to lineIndices
PushedAt(m, i, j) ==
    LET ptr == MeshId(m, i, j)
    IN  (IF i < m.cols - 1 THEN <<ptr, ptr + m.rows>> ELSE <<>>)
        \o (IF j < m.rows - 1 THEN <<ptr, ptr + 1>> ELSE <<>>)

\* the index pairs of a piece of lineIndices
PairsOf(seq) == {<<seq[2 * k - 1], seq[2 * k]>> : k \in 1..(Len(seq) \div 2)}

\* lineIndices.length: one position for each index appended by each iteration
LineIndicesLength(m) ==
    Cardinality({p \in (0..(m.cols - 1)) \X (0..(m.rows - 1)) \X (1..4) :
                    p[3] <= Len(PushedAt(m, p[1], p[2]))})

\* buffersRef.current = {} before the first initWebGL
NoMesh == [rows |-> 0, cols |-> 0, numVertices |-> 0, numLines |-> 0, build |-> 0]

(***************************************************************************)
(* State.                                                                  *)
(***************************************************************************)
VARIABLES
    variant,        \* which of the two components is running
    gpuEnv,         \* how far initWebGL gets on this machine
    phase,          \* "constructed" before the effects run, then "mounted"
    config,         \* props: particleCount, brightness, staticImage, speed
    changes,        \* configuration changes made so far
    gl,             \* glRef / programRef / buffersRef.vao and the link status
    reported,       \* what console.error has been called with
    canvas,         \* gl.canvas.width, height
    disp,           \* gl.canvas.clientWidth, clientHeight
    maskDim,        \* revealMaskRef.current width, height (<<0, 0>>: no canvas yet)
    mask,           \* tracked pixels of the reveal mask
    handPos,        \* handPos.current
    prevHandPos,    \* prevHandPos.current
    handVel,        \* handVel.current
    gesture,        \* gesture.current
    detStage,       \* progress of setup() / startVideo()
    videoReady,     \* videoRef.current.readyState >= 2
    predictPending, \* ids of pending requestAnimationFrame(predict) callbacks
    frameId,        \* frameId of the hand-tracking effect (0: undefined)
    staticImageRef, \* staticImageRef.current (0: null)
    imgLoading,     \* images whose onload has not fired yet
    renderPending,  \* pending requestAnimationFrame(render) callbacks
    animFrameId,    \* animFrameId.current
    uniforms,       \* uniform values of the last upload
    srcTex,         \* content of the source texture
    maskTex,        \* content of the mask texture
    drawCall,       \* the last draw call
    overlay,        \* cursor drawn on the overlay canvas
    cycles,         \* history: detection cycles that called the estimator
    frames,         \* history: render callbacks run
    frameLog,       \* history: steps of the last render callback
    frameDisp,      \* history: display size at the last render callback
    lastStroke,     \* history: hand position and size of the last frame's stroke
    stalled,        \* history: the last held stroke left the brush centre unchanged
    wiped,          \* history: a resize has discarded painted pixels
    stale,          \* history: the last render callback uploaded no source frame
    mesh,           \* what initWebGL last put into the vertex buffers
    detStopped,     \* history: the cleanup of the hand-tracking effect has run
    renderStopped,  \* history: the cleanup of the render effect has run, no effect run since
    handSeen,       \* history: some cycle returned a hand
    prevVel,        \* history: velocity before the last detection cycle
    lostVel,        \* history: velocity when the hand was last seen
    lostCycles,     \* history: consecutive cycles without a hand
    skipped         \* history: the last call of predict found the video not ready

handVars == <<handPos, prevHandPos, handVel, gesture>>

detVars == <<detStage, videoReady, predictPending, frameId>>

detHist == <<cycles, handSeen, prevVel, lostVel, lostCycles, skipped>>

maskVars == <<maskDim, mask>>

gpuVars == <<uniforms, srcTex, maskTex, drawCall, overlay, canvas>>

frameHist == <<frames, frameLog, frameDisp, lastStroke, stalled, wiped, stale>>

stopVars == <<detStopped, renderStopped>>

vars == <<variant, gpuEnv, phase, config, changes, gl, reported, disp, maskVars, handVars, detVars,
          staticImageRef, imgLoading, renderPending, animFrameId, gpuVars, frameHist, detHist,
          mesh, stopVars>>

(***************************************************************************)
(* requestAnimationFrame.  Handles are never reused by the browser; the    *)
(* model reuses a number only when no pending callback carries it and no   *)
(* stored handle other than the one being overwritten holds it.            *)
(***************************************************************************)
FreshId(used) == CHOOSE n \in 1..(Cardinality(used) + 1) : n \notin used /\ \A m \in 1..(n - 1) : m \in used

\* how far initWebGL gets: getContext fails, a shader does not compile,
\* createProgram fails, the program does not link (not checked by the code),
\* createVertexArray fails, or everything succeeds
InitOutcomes == {"no_context", "compile_fail", "no_program", "link_fail", "no_vao", "ok"}

(***************************************************************************)
(* Initial state: the component has been constructed (useRef initial       *)
(* values), no effect has run.                                             *)
(***************************************************************************)
DefaultConfig == [particleCount |-> 15000, brightness |-> 10, staticImage |-> 0, speed |-> 2]

BlackTexture == [dim |-> <<1, 1>>, px |-> [p \in {<<0, 0>>} |-> BlackPixel]]

InitIn(variants, envs) ==
    /\ variant \in variants
    /\ gpuEnv \in envs
    /\ phase = "constructed"
    /\ config = DefaultConfig
    /\ changes = 0
    /\ gl = [ctx |-> FALSE, program |-> FALSE, linked |-> FALSE, vao |-> FALSE]
    /\ reported = {}
    /\ canvas = <<DefaultCanvasW, DefaultCanvasH>>
    /\ disp = <<160, 120>>
    /\ maskDim = <<0, 0>>
    /\ mask = [p \in {} |-> BlackPixel]
    /\ handPos = <<500, 500>>
    /\ prevHandPos = <<500, 500>>
    /\ handVel = <<0, 0>>
    /\ gesture = NONE
    /\ detStage = "idle"
    /\ videoReady = FALSE
    /\ predictPending = {}
    /\ frameId = 0
    /\ staticImageRef = 0
    /\ imgLoading = {}
    /\ renderPending = {}
    /\ animFrameId = 0
    /\ uniforms = [time |-> 0, resolution |-> <<0, 0>>, hand |-> <<0, 0>>, handVel |-> <<0, 0>>,
                   gesture |-> 0, brightness |-> 0]
    /\ srcTex = [kind |-> "none", image |-> 0]
    /\ maskTex = BlackTexture
    /\ drawCall = [mode |-> "none", valid |-> FALSE, time |-> 0]
    /\ overlay = "blank"
    /\ cycles = 0
    /\ frames = 0
    /\ frameLog = <<>>
    /\ frameDisp = <<0, 0>>
    /\ lastStroke = <<>>
    /\ stalled = FALSE
    /\ wiped = FALSE
    /\ stale = FALSE
    /\ mesh = NoMesh
    /\ detStopped = FALSE
    /\ renderStopped = FALSE
    /\ handSeen = FALSE
    /\ prevVel = <<0, 0>>
    /\ lostVel = <<0, 0>>
    /\ lostCycles = 0
    /\ skipped = FALSE

(***************************************************************************)
(* initWebGL and the render effect.                                        *)
(***************************************************************************)
\* the refs initWebGL leaves behind; a ref it does not reach keeps its value
InitWebGL(g, o) ==
    CASE o = "no_context" -> g
      [] o \in {"compile_fail", "no_program"} -> [g EXCEPT !.ctx = TRUE]
      [] o = "link_fail" -> [ctx |-> TRUE, program |-> TRUE, linked |-> FALSE, vao |-> TRUE]
      [] o = "no_vao" -> [ctx |-> TRUE, program |-> TRUE, linked |-> TRUE, vao |-> FALSE]
      [] OTHER -> [ctx |-> TRUE, program |-> TRUE, linked |-> TRUE, vao |-> TRUE]

\* createShader logs the info log of a shader that does not compile
InitReports(o) == IF o = "compile_fail" THEN {"shader"} ELSE {}

\* initWebGL got as far as creating the 1x1 black textures
InitTextures(o) == o \in {"link_fail", "no_vao", "ok"}

\* the closure of render created by one run of the effect
RenderCallback(id, cfg) == [id |-> id, brightness |-> cfg.brightness, staticImage |-> cfg.staticImage]

\* body of the render effect for props cfg, with the callbacks in `pending`
\* still scheduled: initWebGL, static image load, first requestAnimationFrame
RenderEffect(cfg, o, pending) ==
    LET id == FreshId({cb.id : cb \in pending} \cup predictPending \cup {frameId})
    IN  /\ gl' = InitWebGL(gl, o)
        /\ reported' = reported \cup InitReports(o)
        /\ srcTex' = IF InitTextures(o) THEN [kind |-> "black", image |-> 0] ELSE srcTex
        /\ maskTex' = IF InitTextures(o) THEN BlackTexture ELSE maskTex
        /\ mesh' = IF InitTextures(o)
                   THEN MeshBuilder(variant, cfg.particleCount, canvas[1], canvas[2], mesh.build + 1)
                   ELSE mesh
        /\ renderStopped' = FALSE
        /\ imgLoading' = IF cfg.staticImage # 0 THEN imgLoading \cup {cfg.staticImage} ELSE imgLoading
        /\ staticImageRef' = IF cfg.staticImage # 0 THEN staticImageRef ELSE 0
        /\ renderPending' = pending \cup {RenderCallback(id, cfg)}
        /\ animFrameId' = id

\* first commit: the three effects run in the order they are declared
Mount ==
    /\ phase = "constructed"
    /\ phase' = "mounted"
    /\ detStage' = "loading"
    /\ maskDim' = <<DefaultCanvasW, DefaultCanvasH>>
    /\ mask' = InitialMask
    /\ RenderEffect(config, gpuEnv, renderPending)
    /\ UNCHANGED <<variant, gpuEnv, detStopped, config, changes, disp, handVars, videoReady, predictPending, frameId,
                   uniforms, drawCall, overlay, canvas, frameHist, detHist>>

\* the dependency list of the render effect
EffectDeps == {"particleCount", "staticImage", "brightness"}

\* values the control panel can set
ConfigValues == [particleCount |-> {15000, 2000}, brightness |-> {10, 25}, staticImage |-> {0, 1},
                 speed |-> {2, 0}]

\* cancelAnimationFrame(h)
Cancel(pending, h) == {cb \in pending : cb.id # h}

\* variant: a run of the render effect also resets gesture and velocity
ConfigChangeInResetHand(values, cap) ==
    /\ phase = "mounted"
    /\ changes < cap
    /\ changes' = changes + 1
    /\ \E key \in DOMAIN values : \E val \in values[key] :
          /\ val # config[key]
          /\ config' = [config EXCEPT ![key] = val]
          /\ IF key \in EffectDeps
             THEN /\ RenderEffect(config', gpuEnv, Cancel(renderPending, animFrameId))
                  /\ gesture' = NONE
                  /\ handVel' = <<0, 0>>
             ELSE UNCHANGED <<gl, reported, srcTex, maskTex, imgLoading, staticImageRef,
                              renderPending, animFrameId, mesh, renderStopped, gesture, handVel>>
    /\ UNCHANGED <<variant, gpuEnv, detStopped, phase, disp, maskVars, handPos, prevHandPos, detVars,
                   uniforms, drawCall, overlay, canvas, frameHist, detHist>>

\* handleChange(key, val) for a key and value of `values`, at most cap times:
\* new props; the render effect is cleaned up and run again when one of its
\* dependencies changed
ConfigChangeIn(values, cap) ==
    /\ phase = "mounted"
    /\ changes < cap
    /\ changes' = changes + 1
    /\ \E key \in DOMAIN values : \E val \in values[key] :
          /\ val # config[key]
          /\ config' = [config EXCEPT ![key] = val]
          /\ IF key \in EffectDeps
             THEN RenderEffect(config', gpuEnv, Cancel(renderPending, animFrameId))
             ELSE UNCHANGED <<gl, reported, srcTex, maskTex, imgLoading, staticImageRef,
                              renderPending, animFrameId, mesh, renderStopped>>
    /\ UNCHANGED <<variant, gpuEnv, detStopped, phase, disp, maskVars, handVars, detVars,
                   uniforms, drawCall, overlay, canvas, frameHist, detHist>>

ConfigChange == ConfigChangeIn(ConfigValues, MaxConfigChanges)

\* the two sliders that re-run the render effect
TrackConfigValues == [particleCount |-> {15000, 2000}, brightness |-> {10, 25}]

\* img.onload = () => { staticImageRef.current = img; }
ImageLoaded ==
    /\ \E k \in imgLoading :
          /\ staticImageRef' = k
          /\ imgLoading' = imgLoading \ {k}
    /\ UNCHANGED <<variant, gpuEnv, mesh, stopVars, phase, config, changes, gl, reported, disp, maskVars, handVars, detVars,
                   renderPending, animFrameId, gpuVars, frameHist, detHist>>

\* the window is resized to one of `sizes`
ResizeIn(sizes) ==
    /\ phase = "mounted"
    /\ disp' \in sizes \ {disp}
    /\ UNCHANGED <<variant, gpuEnv, mesh, stopVars, phase, config, changes, gl, reported, maskVars, handVars, detVars,
                   staticImageRef, imgLoading, renderPending, animFrameId, gpuVars, frameHist, detHist>>

Resize == ResizeIn(Sizes)

(***************************************************************************)
(* One render callback.  The steps transform the frame record f in the     *)
(* order of the statements of render; each step adds its name to f.log.    *)
(***************************************************************************)
RefreshMs == 1000 \div 60

FrameStart ==
    [canvas |-> canvas, maskDim |-> maskDim, mask |-> mask, uniforms |-> uniforms, srcTex |-> srcTex,
     maskTex |-> maskTex, drawCall |-> drawCall, overlay |-> overlay, log |-> <<>>]

\* variant: the mask is resized without being cleared
ResizeStepKeep(f) ==
    [f EXCEPT !.canvas = disp,
              !.maskDim = disp,
              !.mask = IF f.maskDim # disp
                       THEN [p \in Visible(disp[1], disp[2]) |->
                                IF p \in DOMAIN f.mask THEN f.mask[p] ELSE BlackPixel]
                       ELSE f.mask,
              !.log = Append(f.log, "resize")]

\* canvas and mask follow the display size; the mask is cleared to black
ResizeStep(f) ==
    [f EXCEPT !.canvas = disp,
              !.maskDim = disp,
              !.mask = IF f.maskDim # disp THEN ResetMask(disp[1], disp[2]) ELSE f.mask,
              !.log = Append(f.log, "resize")]

\* variant: every hand paints, whatever its gesture
PaintStepAnyHand(f) ==
    IF gesture # NONE
    THEN [f EXCEPT !.mask = Stamp(f.mask, BrushCentre(handPos, disp[1], disp[2])),
                   !.log = Append(f.log, "paint")]
    ELSE f

\* if (gesture.current === 1 && revealMaskRef.current) ... mCtx.fill()
PaintStep(f) ==
    IF gesture = FIST
    THEN [f EXCEPT !.mask = Stamp(f.mask, BrushCentre(handPos, disp[1], disp[2])),
                   !.log = Append(f.log, "paint")]
    ELSE f

\* variant: the video element is uploaded whatever its readyState
UploadStepAlways(f, cb) ==
    [f EXCEPT !.uniforms = [time |-> (frames + 1) * RefreshMs, resolution |-> disp, hand |-> handPos,
                            handVel |-> <<handVel[1], -handVel[2]>>, gesture |-> gesture,
                            brightness |-> cb.brightness],
              !.srcTex = IF cb.staticImage # 0 /\ staticImageRef # 0 THEN [kind |-> "image", image |-> staticImageRef]
                         ELSE [kind |-> "video", image |-> 0],
              !.maskTex = [dim |-> f.maskDim, px |-> f.mask],
              !.log = Append(f.log, "upload")]

\* uniforms, source texture and mask texture
UploadStep(f, cb) ==
    [f EXCEPT !.uniforms = [time |-> (frames + 1) * RefreshMs, resolution |-> disp, hand |-> handPos,
                            handVel |-> <<handVel[1], -handVel[2]>>, gesture |-> gesture,
                            brightness |-> cb.brightness],
              !.srcTex = IF cb.staticImage # 0 /\ staticImageRef # 0 THEN [kind |-> "image", image |-> staticImageRef]
                         ELSE IF videoReady THEN [kind |-> "video", image |-> 0]
                         ELSE f.srcTex,
              !.maskTex = [dim |-> f.maskDim, px |-> f.mask],
              !.log = Append(f.log, "upload")]

\* gl.drawElements(gl.LINES, ...) / gl.drawArrays(gl.POINTS, ...)
DrawStep(f) ==
    [f EXCEPT !.drawCall = [mode |-> IF variant = "LINES" THEN "LINES" ELSE "POINTS",
                            valid |-> gl.linked, time |-> f.uniforms.time],
              !.log = Append(f.log, "draw")]

\* cursor drawn after ctx.clearRect
Cursor(v, g) ==
    IF g = FIST THEN "paint"
    ELSE IF g = PINCH THEN (IF v = "LINES" THEN "pinch" ELSE "weave")
    ELSE IF g = OPEN /\ v = "LINES" THEN "wave"
    ELSE "clear"

OverlayStep(f) == [f EXCEPT !.overlay = Cursor(variant, gesture), !.log = Append(f.log, "overlay")]

\* variant: the stroke is stamped before the resize check
RunFramePaintFirst(cb) == OverlayStep(DrawStep(UploadStep(ResizeStep(PaintStep(FrameStart)), cb)))

\* the statements of render after its guard, in source order
RunFrame(cb) == OverlayStep(DrawStep(UploadStep(PaintStep(ResizeStep(FrameStart)), cb)))

\* variant: the guard does not look at the vertex array
NotInitializedNoVao(g) == ~g.ctx \/ ~g.program

\* if (!gl || !program || !buffersRef.current.vao)
NotInitialized(g) == ~g.ctx \/ ~g.program \/ ~g.vao

\* animFrameId.current = requestAnimationFrame(render), after callback cb ran
Reschedule(cb) ==
    LET rest == renderPending \ {cb}
        id   == FreshId({c.id : c \in rest} \cup predictPending \cup {frameId})
    IN  /\ renderPending' = rest \cup {[cb EXCEPT !.id = id]}
        /\ animFrameId' = id

\* render(now), for at most `cap` callbacks
Render(cap) ==
    /\ frames < cap
    /\ \E cb \in renderPending :
          /\ Reschedule(cb)
          /\ frames' = frames + 1
          /\ frameDisp' = disp
          /\ IF NotInitialized(gl)
             THEN /\ frameLog' = <<"skip", "reschedule">>
                  /\ lastStroke' = <<>>
                  /\ stalled' = FALSE
                  /\ stale' = FALSE
                  /\ UNCHANGED <<maskVars, gpuVars, wiped>>
             ELSE LET f    == RunFrame(cb)
                      c    == BrushCentre(handPos, disp[1], disp[2])
                      held == gesture = FIST /\ lastStroke = <<handPos, disp>>
                  IN  /\ canvas' = f.canvas
                      /\ maskDim' = f.maskDim
                      /\ mask' = f.mask
                      /\ uniforms' = f.uniforms
                      /\ srcTex' = f.srcTex
                      /\ maskTex' = f.maskTex
                      /\ drawCall' = f.drawCall
                      /\ overlay' = f.overlay
                      /\ frameLog' = Append(f.log, "reschedule")
                      /\ lastStroke' = IF gesture = FIST THEN <<handPos, disp>> ELSE <<>>
                      /\ stalled' = (held /\ c \in DOMAIN mask /\ f.mask[c].r = mask[c].r)
                      /\ wiped' = (wiped \/ (maskDim # disp /\ \E p \in DOMAIN mask : mask[p].r > 0))
                      /\ stale' = (~videoReady /\ ~(cb.staticImage # 0 /\ staticImageRef # 0))
    /\ UNCHANGED <<variant, gpuEnv, mesh, stopVars, phase, config, changes, gl, reported, disp, handVars, detVars,
                   staticImageRef, imgLoading, detHist>>

(***************************************************************************)
(* Hand tracking: setup, startVideo and predict.                           *)
(***************************************************************************)
\* !videoRef.current: React has detached the refs of the unmounted component
Detached == phase = "unmounted"

\* HandLandmarker.createFromOptions resolves; startVideo asks for the camera
LandmarkerLoaded ==
    /\ detStage = "loading"
    /\ detStage' = IF Detached THEN "ended" ELSE "camera"
    /\ UNCHANGED <<variant, gpuEnv, mesh, stopVars, phase, config, changes, gl, reported, disp, maskVars, handVars,
                   videoReady, predictPending, frameId, staticImageRef, imgLoading,
                   renderPending, animFrameId, gpuVars, frameHist, detHist>>

\* getUserMedia resolves: srcObject = stream, onloadeddata = predict; with the
\* video element gone the assignment throws inside the try block
CameraGranted ==
    /\ detStage = "camera"
    /\ detStage' = IF Detached THEN "ended" ELSE "streaming"
    /\ reported' = IF Detached THEN reported \cup {"camera"} ELSE reported
    /\ UNCHANGED <<variant, gpuEnv, mesh, stopVars, phase, config, changes, gl, disp, maskVars, handVars,
                   videoReady, predictPending, frameId, staticImageRef, imgLoading,
                   renderPending, animFrameId, gpuVars, frameHist, detHist>>

\* getUserMedia rejects: catch(e) { console.error(e) }
CameraDenied ==
    /\ detStage = "camera"
    /\ detStage' = "denied"
    /\ reported' = reported \cup {"camera"}
    /\ UNCHANGED <<variant, gpuEnv, mesh, stopVars, phase, config, changes, gl, disp, maskVars, handVars,
                   videoReady, predictPending, frameId, staticImageRef, imgLoading,
                   renderPending, animFrameId, gpuVars, frameHist, detHist>>

\* hand branch of predict: velocity, previous target, position, gesture
DetectHand(lm) ==
    LET t == Target(lm)
    IN  /\ handVel' = <<SmoothVel(handVel[1], t[1] - prevHandPos[1]),
                        SmoothVel(handVel[2], t[2] - prevHandPos[2])>>
        /\ prevHandPos' = t
        /\ handPos' = <<SmoothPos(handPos[1], t[1]), SmoothPos(handPos[2], t[2])>>
        /\ gesture' = Classify(variant, lm)
        /\ handSeen' = TRUE
        /\ lostVel' = handVel'
        /\ lostCycles' = 0

\* detectForVideo throws: predict ends at the call
DetectThrows(rest) ==
    /\ predictPending' = rest
    /\ UNCHANGED <<frameId, handVars, handSeen, lostVel, lostCycles>>

\* else branch of predict: no landmarks
DetectNone ==
    /\ gesture' = NoHandGesture
    /\ handVel' = <<DecayVel(handVel[1]), DecayVel(handVel[2])>>
    /\ lostCycles' = lostCycles + 1
    /\ UNCHANGED <<handPos, prevHandPos, handSeen, lostVel>>

\* frameId = requestAnimationFrame(predict), with `rest` still pending
SchedulePredict(rest) ==
    LET id == FreshId({c.id : c \in renderPending} \cup rest \cup {animFrameId})
    IN  /\ frameId' = id
        /\ predictPending' = rest \cup {id}

\* predict(), the landmarker loaded; `ready` is readyState >= 2.  The
\* estimator answers with an element of `hands` (a hand, or Fault) during the
\* first handCap cycles and with no hand at any time, for at most cap cycles
Predict(hands, handCap, cap, ready, rest) ==
    IF Detached
    THEN /\ predictPending' = rest
         /\ UNCHANGED <<frameId, handVars, detHist>>
    ELSE IF ~ready
    THEN /\ SchedulePredict(rest)
         /\ skipped' = TRUE
         /\ UNCHANGED <<handVars, cycles, handSeen, prevVel, lostVel, lostCycles>>
    ELSE /\ cycles < cap
         /\ cycles' = cycles + 1
         /\ skipped' = FALSE
         /\ prevVel' = handVel
         /\ \/ \E lm \in hands :
                  /\ cycles < handCap
                  /\ IF lm = Fault THEN DetectThrows(rest)
                     ELSE DetectHand(lm) /\ SchedulePredict(rest)
            \/ DetectNone /\ SchedulePredict(rest)

\* the video's loadeddata event calls predict
LoadedData(hands, handCap, cap) ==
    /\ detStage = "streaming"
    /\ detStage' = IF Detached THEN "ended" ELSE "running"
    /\ videoReady' = TRUE
    /\ Predict(hands, handCap, cap, TRUE, predictPending)
    /\ UNCHANGED <<variant, gpuEnv, mesh, stopVars, phase, config, changes, gl, reported, disp, maskVars,
                   staticImageRef, imgLoading, renderPending, animFrameId, gpuVars, frameHist>>

\* the video fires loadeddata again (the stream was interrupted and reloaded):
\* the handler calls predict while the callback of the last cycle is pending
LoadedDataAgain(hands, handCap, cap) ==
    /\ detStage = "running"
    /\ videoReady' = TRUE
    /\ Predict(hands, handCap, cap, TRUE, predictPending)
    /\ UNCHANGED <<variant, gpuEnv, mesh, stopVars, phase, config, changes, gl, reported, disp, maskVars, detStage,
                   staticImageRef, imgLoading, renderPending, animFrameId, gpuVars, frameHist>>

\* a scheduled predict callback runs
PredictCallback(hands, handCap, cap) ==
    /\ \E id \in predictPending : Predict(hands, handCap, cap, videoReady, predictPending \ {id})
    /\ UNCHANGED <<variant, gpuEnv, mesh, stopVars, phase, config, changes, gl, reported, disp, maskVars, detStage, videoReady,
                   staticImageRef, imgLoading, renderPending, animFrameId, gpuVars, frameHist>>

\* the stream stalls or resumes: readyState crosses HAVE_CURRENT_DATA
VideoReadyChange ==
    /\ detStage = "running"
    /\ videoReady' = ~videoReady
    /\ UNCHANGED <<variant, gpuEnv, mesh, stopVars, phase, config, changes, gl, reported, disp, maskVars, handVars,
                   detStage, predictPending, frameId, staticImageRef, imgLoading,
                   renderPending, animFrameId, gpuVars, frameHist, detHist>>

(***************************************************************************)
(* Stopping the loops.  React runs an effect's cleanup when the component  *)
(* unmounts (refs are detached) and, with the component still mounted and  *)
(* its refs attached, before it runs the effect again (dependency change,  *)
(* StrictMode's simulated unmount in development, Fast Refresh).           *)
(***************************************************************************)
\* cleanup of the hand-tracking effect: cancelAnimationFrame(frameId)
CleanupDetection ==
    /\ predictPending' = predictPending \ {frameId}
    /\ detStopped' = TRUE

\* cleanup of the render effect: cancelAnimationFrame(animFrameId.current)
CleanupRender ==
    /\ renderPending' = Cancel(renderPending, animFrameId)
    /\ renderStopped' = TRUE

\* the cleanup of the hand-tracking effect runs, the component stays mounted
StopDetection ==
    /\ phase = "mounted"
    /\ CleanupDetection
    /\ UNCHANGED <<variant, gpuEnv, mesh, renderStopped, phase, config, changes, gl, reported, disp, maskVars,
                   handVars, detStage, videoReady, frameId, staticImageRef, imgLoading, renderPending,
                   animFrameId, gpuVars, frameHist, detHist>>

\* the cleanup of the render effect runs, the component stays mounted
StopRender ==
    /\ phase = "mounted"
    /\ CleanupRender
    /\ UNCHANGED <<variant, gpuEnv, mesh, detStopped, phase, config, changes, gl, reported, disp, maskVars,
                   handVars, detVars, staticImageRef, imgLoading, animFrameId, gpuVars, frameHist, detHist>>

\* the component unmounts: both cleanups run and the refs are detached
Unmount ==
    /\ phase = "mounted"
    /\ phase' = "unmounted"
    /\ CleanupDetection
    /\ CleanupRender
    /\ UNCHANGED <<variant, gpuEnv, mesh, config, changes, gl, reported, disp, maskVars, handVars, detStage,
                   videoReady, frameId, staticImageRef, imgLoading, animFrameId, gpuVars, frameHist, detHist>>

(***************************************************************************)
(* Specifications.  Spec runs every part of the component with a hand held *)
(* in one place; SpecPaint moves a painting hand over a resizable surface; *)
(* SpecHold keeps a fist still for many frames; SpecDecay follows the      *)
(* detection loop long after the hand is lost.                             *)
(***************************************************************************)
Startup == Mount \/ LandmarkerLoaded \/ CameraGranted \/ CameraDenied

Init == InitIn(Variants, InitOutcomes)

Next ==
    \/ Startup
    \/ ConfigChange
    \/ ImageLoaded
    \/ Resize
    \/ LoadedData(Hands, MaxCycles, MaxCycles)
    \/ PredictCallback(Hands, MaxCycles, MaxCycles)
    \/ Render(MaxFrames)

Spec == Init /\ [][Next]_vars

InitPaint == InitIn(Variants, {"ok", "no_context"})

NextPaint ==
    \/ Startup
    \/ Resize
    \/ LoadedData(PaintHands, MaxPaintCycles, MaxPaintCycles)
    \/ PredictCallback(PaintHands, MaxPaintCycles, MaxPaintCycles)
    \/ Render(MaxPaintFrames)

SpecPaint == InitPaint /\ [][NextPaint]_vars

InitHold == InitIn(Variants, {"ok"})

NextHold ==
    \/ Startup
    \/ Resize
    \/ LoadedData(HoldHands, MaxCycles, MaxCycles)
    \/ PredictCallback(HoldHands, MaxCycles, MaxCycles)
    \/ Render(MaxHoldFrames)

SpecHold == InitHold /\ [][NextHold]_vars

InitDecay == InitIn(Variants, {"ok"})

NextDecay ==
    \/ Startup
    \/ VideoReadyChange
    \/ LoadedData(DecayHands, MaxSeenCycles, MaxDecayCycles)
    \/ PredictCallback(DecayHands, MaxSeenCycles, MaxDecayCycles)

SpecDecay == InitDecay /\ [][NextDecay]_vars

\* SpecLife stops the loops at any point of their life
InitLife == InitIn(Variants, {"ok"})

NextLife ==
    \/ Startup
    \/ StopDetection
    \/ StopRender
    \/ Unmount
    \/ LoadedData(LifeHands, MaxLifeCycles, MaxLifeCycles)
    \/ PredictCallback(LifeHands, MaxLifeCycles, MaxLifeCycles)
    \/ Render(MaxLifeFrames)

SpecLife == InitLife /\ [][NextLife]_vars

\* SpecTrack moves the hand between the corners while frames are rendered and
\* sliders are moved
InitTrack == InitIn(Variants, {"ok"})

NextTrack ==
    \/ Startup
    \/ LoadedData(TrackHands, MaxTrackCycles, MaxTrackCycles)
    \/ PredictCallback(TrackHands, MaxTrackCycles, MaxTrackCycles)
    \/ Render(MaxTrackFrames)
    \/ ConfigChangeIn(TrackConfigValues, MaxConfigChanges)

SpecTrack == InitTrack /\ [][NextTrack]_vars

\* layouts of the window, from ordinary to one pixel high or wide
MeshSizes == {<<300, 150>>, <<160, 120>>, <<2000, 1>>, <<1, 2000>>}

\* the ends and the default of the density slider
MeshConfigValues == [particleCount |-> {2000, 15000, 50000}]

\* SpecMesh rebuilds the mesh for every density on every layout
InitMesh == InitIn(Variants, {"ok"})

NextMesh ==
    \/ Startup
    \/ ResizeIn(MeshSizes)
    \/ Render(MaxMeshFrames)
    \/ ConfigChangeIn(MeshConfigValues, MaxMeshChanges)

SpecMesh == InitMesh /\ [][NextMesh]_vars

\* no static image (0), or one of two uploaded images
ImageConfigValues == [staticImage |-> {0, 1, 2}]

\* SpecImage uploads and clears static images while frames are rendered
InitImage == InitIn(Variants, {"ok"})

NextImage ==
    \/ Startup
    \/ ConfigChangeIn(ImageConfigValues, MaxImageChanges)
    \/ ImageLoaded
    \/ LoadedData(HoldHands, MaxImageCycles, MaxImageCycles)
    \/ PredictCallback(HoldHands, MaxImageCycles, MaxImageCycles)
    \/ Render(MaxImageFrames)

SpecImage == InitImage /\ [][NextImage]_vars

\* SpecShade paints, then warps the painted and the unpainted mesh
InitShade == InitIn(Variants, {"ok"})

NextShade ==
    \/ Startup
    \/ LoadedData(ShadeHands, MaxShadeCycles, MaxShadeCycles)
    \/ PredictCallback(ShadeHands, MaxShadeCycles, MaxShadeCycles)
    \/ Render(MaxShadeFrames)

SpecShade == InitShade /\ [][NextShade]_vars

\* SpecClassify shows every hand shape to the classifier
InitClassify == InitIn(Variants, {"ok"})

NextClassify ==
    \/ Startup
    \/ VideoReadyChange
    \/ LoadedData(ClassifyHands, MaxClassifyCycles, MaxClassifyCycles)
    \/ PredictCallback(ClassifyHands, MaxClassifyCycles, MaxClassifyCycles)

SpecClassify == InitClassify /\ [][NextClassify]_vars

\* the low end of the density slider
EdgeConfigValues == [particleCount |-> {2000, 3000}]

\* SpecEdges rebuilds the LINES mesh at low densities on both layouts
InitEdges == InitIn({"LINES"}, {"ok"})

NextEdges ==
    \/ Startup
    \/ ResizeIn(Sizes)
    \/ Render(MaxEdgeFrames)
    \/ ConfigChangeIn(EdgeConfigValues, MaxEdgeChanges)

SpecEdges == InitEdges /\ [][NextEdges]_vars

\* SpecStall lets the video stall and resume under both loops
InitStall == InitIn(Variants, {"ok"})

NextStall ==
    \/ Startup
    \/ VideoReadyChange
    \/ LoadedData(HoldHands, MaxStallCycles, MaxStallCycles)
    \/ PredictCallback(HoldHands, MaxStallCycles, MaxStallCycles)
    \/ Render(MaxStallFrames)

SpecStall == InitStall /\ [][NextStall]_vars

\* SpecMask paints while the window is resized and sliders are moved
InitMask == InitIn(Variants, {"ok", "no_context"})

NextMask ==
    \/ Startup
    \/ Resize
    \/ ConfigChangeIn(TrackConfigValues, MaxConfigChanges)
    \/ LoadedData(PaintHands, MaxMaskCycles, MaxMaskCycles)
    \/ PredictCallback(PaintHands, MaxMaskCycles, MaxMaskCycles)
    \/ Render(MaxMaskFrames)

SpecMask == InitMask /\ [][NextMask]_vars

\* SpecReload restarts the render effect and repeats loadeddata
InitReload == InitIn(Variants, {"ok", "no_context"})

NextReload ==
    \/ Startup
    \/ ConfigChangeIn(TrackConfigValues, MaxConfigChanges)
    \/ LoadedData(HoldHands, MaxReloadCycles, MaxReloadCycles)
    \/ LoadedDataAgain(HoldHands, MaxReloadCycles, MaxReloadCycles)
    \/ PredictCallback(HoldHands, MaxReloadCycles, MaxReloadCycles)
    \/ Render(MaxReloadFrames)

SpecReload == InitReload /\ [][NextReload]_vars

(***************************************************************************)
(* Properties.                                                             *)
(***************************************************************************)
GestureCodes == {NONE, FIST, OPEN, PINCH}

\* this step is a render callback
FrameStep == frames' = frames + 1

\* glRef, programRef and buffersRef.vao are all set
GpuReady == gl.ctx /\ gl.program /\ gl.vao

\* 8-bit alpha of a stroke at brush centre c on pixel p
BrushIntensity(p, c) == GradientAlpha(p, c) \div BrushRadius

\* C1: in every reachable state the gesture code held by the classifier and the
\* one last uploaded as u_gesture are among NONE(0), FIST(1), OPEN(2), PINCH(4)
C1_GestureCodeValid == gesture \in GestureCodes /\ uniforms.gesture \in GestureCodes

\* a pinch was uploaded, detection went on to an open hand, the configuration changed
C1_Witness == uniforms.gesture = PINCH /\ gesture = OPEN /\ changes > 0

\* C2: between two render callbacks that see the same display size no mask
\* pixel decreases, and no pixel ever leaves 0..255
C2_MaskMonotone ==
    [][/\ \A p \in DOMAIN mask' : mask'[p].r >= 0 /\ mask'[p].r <= ChannelMax
       /\ frameDisp = disp => \A p \in DOMAIN mask \cap DOMAIN mask' : mask'[p].r >= mask[p].r]_vars

\* two frames at one size have raised a pixel above a single stroke's intensity
C2_Witness == frameDisp = disp /\ frames >= 2 /\ \E p \in DOMAIN mask : mask[p].r > BrushAlpha

\* C3 as stated: any render callback that finds the display size different from
\* the mask's leaves the mask at the display size holding nothing but this
\* frame's stroke
C3_AnyFrameResets ==
    [][(FrameStep /\ maskDim # disp) =>
          /\ maskDim' = disp
          /\ DOMAIN mask' = Visible(disp[1], disp[2])
          /\ \A p \in DOMAIN mask' :
                mask'[p].r = IF gesture = FIST
                             THEN BrushIntensity(p, BrushCentre(handPos, disp[1], disp[2]))
                             ELSE 0]_vars

\* C3 amended: a render callback that runs with the GPU objects initialized and
\* finds the display size different from the mask's leaves the mask at the
\* display size, opaque, holding nothing but this frame's stroke
C3_RunFrameResets ==
    [][(FrameStep /\ GpuReady /\ maskDim # disp) =>
          /\ maskDim' = disp
          /\ DOMAIN mask' = Visible(disp[1], disp[2])
          /\ \A p \in DOMAIN mask' :
                /\ mask'[p].a = ChannelMax
                /\ mask'[p].r = IF gesture = FIST
                                THEN BrushIntensity(p, BrushCentre(handPos, disp[1], disp[2]))
                                ELSE 0]_vars

\* a resize frame has discarded painted pixels
C3_Witness == wiped /\ frameLog # <<>> /\ frameLog[1] = "resize" /\ maskDim = frameDisp

\* value of pixel p the stroke of this frame is painted over
Backdrop(p) == IF maskDim # disp \/ p \notin DOMAIN mask THEN BlackPixel ELSE mask[p]

\* this step is a render callback that stamps a stroke
StrokeStep == FrameStep /\ GpuReady /\ gesture = FIST

\* C5 as stated, for the opaque pixels: after a stroke the pixel holds
\* max(previous value, brush intensity at the pixel)
C5_MaxRule ==
    [][StrokeStep =>
          \A p \in DOMAIN mask' :
              Backdrop(p).a = ChannelMax =>
              mask'[p].r = Max(Backdrop(p).r, BrushIntensity(p, BrushCentre(handPos, disp[1], disp[2])))]_vars

\* C5 amended: a stroke composites white at the brush's alpha over the pixel:
\* an opaque pixel moves from prev to prev + alpha * (255 - prev) / 255 (rounded
\* down), which is at least max(prev, alpha), at most 255 and at most
\* prev + alpha; overlapping strokes accumulate
C5_ScreenRule ==
    [][StrokeStep =>
          \A p \in DOMAIN mask' :
              LET prev == Backdrop(p).r
                  al   == GradientAlpha(p, BrushCentre(handPos, disp[1], disp[2]))
                  full == ChannelMax * BrushRadius
                  new  == mask'[p].r
              IN  Backdrop(p).a = ChannelMax =>
                      /\ full * (new - prev) <= al * (ChannelMax - prev)
                      /\ al * (ChannelMax - prev) < full * (new - prev + 1)
                      /\ new >= Max(prev, al \div BrushRadius)
                      /\ new <= Min(ChannelMax, prev + al \div BrushRadius)]_vars

\* an opaque pixel holds more than one stroke can give and less than white
C5_Witness ==
    /\ lastStroke # <<>>
    /\ \E p \in DOMAIN mask : mask[p].a = ChannelMax /\ mask[p].r > BrushAlpha /\ mask[p].r < ChannelMax

\* no 8-bit step is left between v and white at the brush's centre alpha
Saturated(v) == (ChannelMax - v) * BrushAlpha < ChannelMax

\* C4: while a fist is held still on an unchanged surface, each further frame
\* raises the mask value at the brush centre strictly, until it reaches its
\* saturation value (white, up to 8-bit rounding); from then on it is constant
C4_HoldIncreases ==
    [][(StrokeStep /\ lastStroke = <<handPos, disp>>
               /\ BrushCentre(handPos, disp[1], disp[2]) \in DOMAIN mask) =>
          LET c == BrushCentre(handPos, disp[1], disp[2])
          IN  /\ mask'[c].r > mask[c].r \/ (mask'[c].r = mask[c].r /\ Saturated(mask[c].r))
              /\ stalled => mask'[c].r = mask[c].r]_vars

\* the centre of a held stroke has climbed through many frames and stopped
C4_Witness ==
    /\ stalled
    /\ frames >= 20
    /\ LET c == BrushCentre(handPos, disp[1], disp[2])
       IN  c \in DOMAIN mask /\ mask[c].a = ChannelMax /\ mask[c].r > 200

\* C6: a cycle without a hand sets the gesture to NONE and multiplies each
\* velocity component by 0.9 (within one fixed-point unit, never to zero from a
\* value of two units or more); after 44 such cycles in a row each component is
\* below 1% of its value when the hand was lost
C6_VelocityDecays ==
    lostCycles >= 1 =>
        /\ gesture = NONE
        /\ \A i \in 1..2 :
              /\ Abs(10 * handVel[i] - 9 * prevVel[i]) < 10
              /\ Abs(handVel[i]) <= Abs(prevVel[i])
              /\ Abs(prevVel[i]) >= 2 => handVel[i] # 0
              /\ lostCycles >= 44 => 100 * Abs(handVel[i]) < Max(Abs(lostVel[i]), 1)

\* 44 cycles after a moving hand was lost the velocity is still not zero
C6_Witness == lostCycles >= 44 /\ lostVel[1] # 0 /\ handVel[1] # 0

\* what the vertex shader emits for the vertex at uv with the last upload
Emitted(uv) ==
    VertexShader(variant, uv, maskTex.px[TexelOf(uv, maskTex.dim[1], maskTex.dim[2])].r, uniforms)

\* C7: as long as no detection cycle has returned a hand, the gesture is NONE,
\* the velocity is (0, 0), every mask pixel is 0 and every vertex drawn is
\* emitted at its base position with depth 0 and no tint
C7_NoHandNoWarp ==
    ~handSeen =>
        /\ gesture = NONE
        /\ handVel = <<0, 0>>
        /\ \A p \in DOMAIN mask : mask[p].r = 0
        /\ \A p \in DOMAIN maskTex.px : maskTex.px[p].r = 0
        /\ drawCall.mode # "none" =>
              /\ uniforms.gesture = NONE
              /\ \A uv \in SampleUVs :
                    /\ Emitted(uv).pos = <<TruncDiv((uv[1] - 500) * 2 * uniforms.resolution[1],
                                                   uniforms.resolution[2]), (uv[2] - 500) * 2, 0>>
                    /\ Emitted(uv).tint = <<0, 0, 0>>

\* cycles without a hand and frames have run, one of them after a resize
C7_Witness == ~handSeen /\ cycles >= 2 /\ frames >= 2 /\ drawCall.mode # "none" /\ maskDim = <<DefaultCanvasW, DefaultCanvasH>>

\* C8: a render callback that runs with the GPU objects initialized performs
\* resize check, paint (exactly when the gesture is FIST), upload, draw, overlay
\* and reschedule in this order; the stroke lands in the resized mask, the
\* upload carries the painted mask, the draw uses this frame's uniforms
C8_FrameOrder ==
    [][(FrameStep /\ GpuReady) =>
          /\ frameLog' = IF gesture = FIST
                         THEN <<"resize", "paint", "upload", "draw", "overlay", "reschedule">>
                         ELSE <<"resize", "upload", "draw", "overlay", "reschedule">>
          /\ canvas' = disp /\ maskDim' = disp /\ DOMAIN mask' = Visible(disp[1], disp[2])
          /\ maskTex' = [dim |-> maskDim', px |-> mask']
          /\ uniforms'.gesture = gesture /\ uniforms'.hand = handPos /\ uniforms'.resolution = disp
          /\ drawCall'.mode # "none" /\ drawCall'.time = uniforms'.time /\ uniforms'.time > uniforms.time
          /\ overlay' # "blank"
          /\ Cardinality(renderPending') = 1]_vars

\* a frame has painted and run all its steps
C8_Witness == frameLog = <<"resize", "paint", "upload", "draw", "overlay", "reschedule">>

\* C9 as stated: once the GPU program failed to build or link, the render loop
\* stops and the failure is reported: after a render callback has run, none is
\* scheduled and console.error has been called
C9_StopsOnInitFailure ==
    (phase = "mounted" /\ gpuEnv \in {"compile_fail", "link_fail"} /\ frames > 0) =>
        (renderPending = {} /\ "shader" \in reported)

\* C10: a render callback that finds the context, the program or the vertex
\* array missing changes neither canvas, mask, uniforms, textures, draw call nor
\* overlay, reports nothing, and leaves exactly one render callback scheduled
C10_SkipFrame ==
    [][(FrameStep /\ (~gl.ctx \/ ~gl.program \/ ~gl.vao)) =>
          /\ UNCHANGED <<canvas, maskDim, mask, uniforms, srcTex, maskTex, drawCall, overlay, reported>>
          /\ Cardinality(renderPending') = 1
          /\ \A cb \in renderPending' : cb.id = animFrameId']_vars

\* a skipped frame has left a mask of another size than the display untouched
C10_Witness == frameLog = <<"skip", "reschedule">> /\ frameDisp # maskDim /\ frames >= 2

\* C11 as stated: once the cleanup of a loop's effect has run, whatever the
\* point of the loop's start-up or steady state, no cycle of that loop executes
\* any more: a stopped detection loop runs no detection cycle and writes no
\* hand state, a stopped render loop runs no render callback
C11_StoppedLoopStaysStopped ==
    [][/\ detStopped => (cycles' = cycles /\ UNCHANGED handVars)
       /\ renderStopped => frames' = frames]_vars

\* C12 as stated: every detection cycle of a loop that has not been stopped,
\* one in which the estimator fails included, ends with the next cycle scheduled
C12_CycleReschedules ==
    [][(cycles' = cycles + 1 /\ ~detStopped /\ ~Detached) => predictPending' # {}]_vars

\* C13: a render callback and a configuration change leave smoothed position,
\* previous raw target, velocity and gesture code unchanged; a step that
\* changes one of them is a detection cycle
C13_SingleWriter ==
    [][/\ (frames' # frames \/ changes' # changes) => UNCHANGED handVars
       /\ handVars' # handVars => cycles' = cycles + 1]_vars

\* a frame has read a hand that moved away from the centre, a slider was moved
C13_Witness ==
    /\ frames >= 1 /\ changes >= 1
    /\ uniforms.hand = handPos /\ handPos # <<500, 500>> /\ handVel # <<0, 0>> /\ gesture # NONE

\* the position is inside the unit square
InUnitSquare(pos) == \A i \in 1..2 : pos[i] >= 0 /\ pos[i] <= PosScale

\* C20: with landmark 9 inside the unit square the smoothed position stays
\* inside it; a cycle with a hand moves each coordinate by 0.3 of its distance
\* to the mirrored target (within one fixed-point unit) and not beyond the
\* target, a cycle without a hand leaves the position unchanged
C20_PositionInUnitSquare ==
    [][/\ InUnitSquare(handPos) /\ InUnitSquare(handPos')
       /\ (cycles' = cycles + 1 /\ lostCycles' = 0 /\ predictPending' # {}) =>
              \A i \in 1..2 :
                  /\ Abs(10 * (handPos'[i] - handPos[i]) - 3 * (prevHandPos'[i] - handPos[i])) < 10
                  /\ (handPos'[i] - handPos[i]) * (prevHandPos'[i] - handPos'[i]) >= 0
       /\ (cycles' = cycles + 1 /\ lostCycles' = lostCycles + 1) => handPos' = handPos]_vars

\* the hand went toward a corner and was then lost
C20_Witness == cycles >= 3 /\ lostCycles >= 1 /\ handPos[1] >= 750 /\ handPos[2] <= 250

(***************************************************************************)
(* C14.  Every mesh the builder produces has at least two rows and two     *)
(* columns, rows * cols vertices numbered 0 .. rows * cols - 1 in          *)
(* column-major order, its first vertex at uv (0, 0) and its last at       *)
(* uv (1, 1).                                                              *)
(***************************************************************************)
C14_GridCorners ==
    mesh.build > 0 =>
        /\ mesh.rows >= 2
        /\ mesh.cols >= 2
        /\ mesh.numVertices = mesh.rows * mesh.cols
        /\ MeshId(mesh, 0, 0) = 0
        /\ MeshId(mesh, mesh.cols - 1, mesh.rows - 1) = mesh.numVertices - 1
        /\ MeshUV(mesh, 0) = <<0, 0>>
        /\ MeshUV(mesh, mesh.numVertices - 1) = <<PosScale, PosScale>>

(***************************************************************************)
(* C15.  Once built, the vertex buffers (and the program created with      *)
(* them) are replaced only by a step that changes particleCount; a change  *)
(* of brightness, staticImage or speed alone leaves them as they are.      *)
(***************************************************************************)
C15_RebuildOnlyOnCount ==
    [][(mesh.build > 0 /\ config'.particleCount = config.particleCount) => mesh' = mesh]_vars

(***************************************************************************)
(* C16.  The animation clock is dilated by speed: a frame rendered while   *)
(* speed is 0 uploads the u_time of the frame before it.                   *)
(***************************************************************************)
C16_SpeedZeroFreezesClock ==
    [][(FrameStep /\ frames >= 1 /\ drawCall.mode # "none" /\ ~NotInitialized(gl) /\ config.speed = 0)
          => uniforms'.time = uniforms.time]_vars

(***************************************************************************)
(* C17.  An image uploaded to the source texture by a render callback is   *)
(* the static image of the configuration in force: never an image while    *)
(* the configuration has none, never the image of an earlier               *)
(* configuration.                                                          *)
(***************************************************************************)
C17_SourceIsConfigImage ==
    [][(FrameStep /\ srcTex'.kind = "image")
          => (config.staticImage # 0 /\ srcTex'.image = config.staticImage)]_vars

\* radius of the fist branch of the vertex shader
InnerRadius(v) == IF v = "LINES" THEN 250 ELSE 200

\* depth per unit of (radius - distance) in the fist branch, in tenths
PressDepth(v) == IF v = "LINES" THEN 6 ELSE 5

\* distance(pos.xy, handPos2D) of the vertex at uv with the last upload
HandDist(uv) ==
    LET w == uniforms.resolution[1]
        h == uniforms.resolution[2]
        b == BasePos(uv, w, h)
    IN  ISqrt(Dist2(<<b[1], b[2]>>, HandPos2D(uniforms.hand, w, h)))

(***************************************************************************)
(* C18.  In a frame drawn under FIST every vertex is emitted at its base   *)
(* x and y and without tint, whatever its mask value; its depth is         *)
(* -(innerRadius - distance) * k when its distance to the hand is below    *)
(* innerRadius (0.25 and k = 0.6 in LINES, 0.2 and k = 0.5 in SCATTER) and *)
(* 0 otherwise.                                                            *)
(***************************************************************************)
C18_FistPressOnly ==
    (drawCall.mode # "none" /\ uniforms.gesture = FIST) =>
        \A uv \in SampleUVs :
            LET e == Emitted(uv)
                b == BasePos(uv, uniforms.resolution[1], uniforms.resolution[2])
                d == HandDist(uv)
            IN  /\ e.pos[1] = b[1]
                /\ e.pos[2] = b[2]
                /\ e.tint = <<0, 0, 0>>
                /\ e.pos[3] = IF d < InnerRadius(variant)
                              THEN -(((InnerRadius(variant) - d) * PressDepth(variant)) \div 10)
                              ELSE 0

\* a frame drawn under FIST with a revealed vertex pressed part of the way
\* down, and a vertex outside the radius
C18_Witness ==
    /\ drawCall.mode # "none"
    /\ uniforms.gesture = FIST
    /\ \E uv \in SampleUVs : HandDist(uv) > 0 /\ HandDist(uv) < InnerRadius(variant) /\ Emitted(uv).pos[3] < 0
    /\ \E uv \in SampleUVs : HandDist(uv) >= InnerRadius(variant)
    /\ \E p \in DOMAIN maskTex.px : maskTex.px[p].r * 10 > ChannelMax

\* the gesture of the sticky pull-and-wave branch
StickyGesture(v) == IF v = "LINES" THEN OPEN ELSE PINCH

\* radius of the sticky branch
StickyRadius(v) == IF v = "LINES" THEN 650 ELSE 500

\* the 8-bit mask value the vertex at uv samples from the last upload
MaskSample(uv) == maskTex.px[TexelOf(uv, maskTex.dim[1], maskTex.dim[2])].r

(***************************************************************************)
(* C19.  In a frame drawn under the sticky gesture (OPEN in LINES, PINCH   *)
(* in SCATTER) every vertex whose mask value is at most 0.1 or whose       *)
(* distance to the hand is at least the gesture radius is emitted at its   *)
(* base position with depth 0 and without tint.                            *)
(***************************************************************************)
C19_StickyOnlyRevealed ==
    (drawCall.mode # "none" /\ uniforms.gesture = StickyGesture(variant)) =>
        \A uv \in SampleUVs :
            (MaskSample(uv) * 10 <= ChannelMax \/ HandDist(uv) >= StickyRadius(variant)) =>
                /\ Emitted(uv).pos = <<BasePos(uv, uniforms.resolution[1], uniforms.resolution[2])[1],
                                       (uv[2] - 500) * 2, 0>>
                /\ Emitted(uv).tint = <<0, 0, 0>>

\* a frame drawn under the sticky gesture in which a revealed vertex inside the
\* radius is tinted while a vertex inside the radius with a painted mask value
\* below the threshold is not
C19_Witness ==
    /\ drawCall.mode # "none"
    /\ uniforms.gesture = StickyGesture(variant)
    /\ \E uv \in SampleUVs :
          /\ MaskSample(uv) * 10 > ChannelMax
          /\ HandDist(uv) < StickyRadius(variant)
          /\ Emitted(uv).tint # <<0, 0, 0>>
    /\ \E uv \in SampleUVs :
          /\ MaskSample(uv) > 0
          /\ MaskSample(uv) * 10 <= ChannelMax
          /\ HandDist(uv) < StickyRadius(variant)

\* this step is a detection cycle in which the estimator returned the hand lm
\* (the previous raw target identifies the hand: every hand shown has its own)
SawHand(lm) == cycles' = cycles + 1 /\ lostCycles' = 0 /\ predictPending' # {} /\ prevHandPos' = Target(lm)

\* tip closer to the wrist than num/20 of the base, on squared distances
Curled(tip, base, wrist, num) == Dist2(tip, wrist) * 400 < Dist2(base, wrist) * num * num

(***************************************************************************)
(* C21.  A detection cycle that sees a hand sets the gesture by a fixed     *)
(* priority.  LINES: FIST if middle and ring tip are both closer to the    *)
(* wrist than 0.85 x their base, else PINCH if thumb and index tip are     *)
(* closer than 0.05, else OPEN.  SCATTER: PINCH if thumb and index tip are *)
(* closer than 0.05, else FIST if the middle tip is closer to the wrist    *)
(* than 0.8 x its base, else OPEN.                                         *)
(***************************************************************************)
C21_ClassifyPriority ==
    [][\A lm \in ClassifyHands :
          SawHand(lm) =>
              LET pinch == Dist2(lm.lm4, lm.lm8) < 50 * 50
              IN  IF variant = "LINES"
                  THEN gesture' = IF Curled(lm.lm12, lm.lm9, lm.lm0, 17) /\ Curled(lm.lm16, lm.lm13, lm.lm0, 17)
                                  THEN FIST
                                  ELSE IF pinch THEN PINCH ELSE OPEN
                  ELSE gesture' = IF pinch THEN PINCH
                                  ELSE IF Curled(lm.lm12, lm.lm9, lm.lm0, 16) THEN FIST ELSE OPEN]_vars

\* a pinching fist has been seen and classified after another gesture
C21_Witness ==
    /\ cycles = 2
    /\ lostCycles = 0
    /\ prevHandPos = Target(PinchFistHand(<<500, 400>>))
    /\ gesture = IF variant = "LINES" THEN FIST ELSE PINCH

(***************************************************************************)
(* C22.  The element buffer of every LINES mesh holds, for each vertex,    *)
(* the edge to its right neighbour (id + rows) exactly when the vertex is  *)
(* not in the last column and the edge to its lower neighbour (id + 1)     *)
(* exactly when it is not in the last row, and no other pair: it has       *)
(* (cols - 1) * rows + (rows - 1) * cols edges, which is the count the draw *)
(* call uses, every endpoint is a vertex id, and no edge joins the last    *)
(* vertex of a column to the first vertex of the next.                     *)
(***************************************************************************)
C22_EdgeBuffer ==
    [][(mesh' # mesh /\ variant = "LINES") =>
          LET m == mesh'
          IN  /\ \A i \in 0..(m.cols - 1) : \A j \in 0..(m.rows - 1) :
                    LET id    == i * m.rows + j
                        pairs == PairsOf(PushedAt(m, i, j))
                    IN  /\ <<id, id + m.rows>> \in pairs <=> i < m.cols - 1
                        /\ <<id, id + 1>> \in pairs <=> j < m.rows - 1
                        /\ pairs \subseteq {<<id, id + m.rows>>, <<id, id + 1>>}
                        /\ \A e \in pairs : e[2] \in 0..(m.numVertices - 1)
                        /\ \A e \in pairs : e[2] = e[1] + 1 => e[2] \div m.rows = i
              /\ LineIndicesLength(m) = 2 * ((m.cols - 1) * m.rows + (m.rows - 1) * m.cols)
              /\ m.numLines = LineIndicesLength(m)]_vars

\* meshes of 2000 and of 3000 vertices have been built on a resized canvas
C22_Witness ==
    /\ variant = "LINES"
    /\ mesh.build >= 3
    /\ canvas = <<160, 120>>
    /\ mesh.rows >= 2 /\ mesh.cols >= 2
    /\ mesh.numVertices >= 3000
    /\ mesh.numLines > 2 * mesh.numVertices

(***************************************************************************)
(* C23.  While the video is not ready (readyState < 2) a detection         *)
(* callback changes neither position, previous raw target, velocity nor    *)
(* gesture, runs no detection cycle, reports nothing and leaves a          *)
(* detection callback pending; a render callback that runs without a       *)
(* static image leaves the source texture as it was, reports nothing and   *)
(* leaves a render callback pending.                                       *)
(***************************************************************************)
C23_UnreadySkips ==
    [][/\ (detStage = "running" /\ ~videoReady) =>
             /\ UNCHANGED handVars
             /\ cycles' = cycles
             /\ reported' = reported
             /\ predictPending # {} => predictPending' # {}
       /\ (FrameStep /\ ~videoReady /\ config.staticImage = 0) =>
             /\ srcTex' = srcTex
             /\ reported' = reported
             /\ renderPending' # {}]_vars

\* the video stalled after a fist was seen and a frame uploaded; a detection
\* callback and a render callback have run since
C23_Witness ==
    /\ skipped
    /\ stale
    /\ ~videoReady
    /\ srcTex.kind = "video"
    /\ gesture = FIST
    /\ drawCall.time = 2 * RefreshMs
    /\ predictPending # {}

(***************************************************************************)
(* C24.  Once the mask canvas exists, a step changes a mask pixel or the   *)
(* mask dimensions only if it is a render callback that finds the mask     *)
(* size different from the display size or the gesture FIST: a render      *)
(* callback with another gesture and matching size, a detection cycle and  *)
(* a configuration change leave the mask as it is.                         *)
(***************************************************************************)
C24_MaskWriters ==
    [][phase = "mounted" =>
          /\ (mask' # mask \/ maskDim' # maskDim) => (FrameStep /\ (maskDim # disp \/ gesture = FIST))
          /\ (FrameStep /\ gesture # FIST /\ maskDim = disp) => UNCHANGED maskVars
          /\ cycles' # cycles => UNCHANGED maskVars
          /\ changes' # changes => UNCHANGED maskVars]_vars

\* a painted mask has been carried through a detection cycle, a configuration
\* change that rebuilt the GPU objects, and a frame drawn without a fist
C24_Witness ==
    /\ \E p \in DOMAIN mask : mask[p].r > 0
    /\ changes >= 1
    /\ mesh.build >= 2
    /\ frames >= 2
    /\ gesture = OPEN
    /\ frameLog = <<"resize", "upload", "draw", "overlay", "reschedule">>
    /\ uniforms.brightness = config.brightness
    /\ uniforms.gesture = OPEN

(***************************************************************************)
(* C25.  In every reachable state at most one render callback and at most  *)
(* one detection callback are pending.                                     *)
(***************************************************************************)
C25_OneChainEach == Cardinality(renderPending) <= 1 /\ Cardinality(predictPending) <= 1

(***************************************************************************)
(* C26.  In a frame drawn under FIST, every vertex whose mask sample       *)
(* coordinate (u, 1-v) falls on the texel at the centre of the stroke      *)
(* painted at (hx*W, (1-hy)*H) is at distance 0 from the shader's hand     *)
(* point (hx*aspect, 1-hy): the brush and the warp share their centre.     *)
(***************************************************************************)
C26_BrushAtWarpCentre ==
    (drawCall.mode # "none" /\ uniforms.gesture = FIST) =>
        \A uv \in SampleUVs \cup {uniforms.hand} :
            TexelOf(uv, maskTex.dim[1], maskTex.dim[2])
                = BrushCentre(uniforms.hand, maskTex.dim[1], maskTex.dim[2])
            => HandDist(uv) = 0

=============================================================================
